---- MODULE Spec2Model ----
(***************************************************************************)
(* Model of filter_responses/realizations.py (continued_fractions,         *)
(* is_hurwitz) and filter_responses/filter_prototypes.py (coefficients2hs, *)
(* hs2hw, hw2hwmag, hw2hwphase and the functions they return).             *)
(*                                                                         *)
(* A polynomial is a sequence of coefficients in ascending powers; the     *)
(* Python index k is the TLA+ index k+1.  numpy's float64 numbers are      *)
(* modelled by exact rationals <<p, q>> with q > 0 and gcd(p, q) = 1.      *)
(***************************************************************************)
EXTENDS Integers, Sequences, FiniteSets, TLC

VARIABLES op,        \* the function the caller invoked
          pc,        \* the position of the running call
          err,       \* the exception that ended the call, "none" if none
          pol, get_cof, even_pol, odd_pol, n, m, ret,   \* is_hurwitz
          num0, den0,                                   \* arguments of continued_fractions
          num, den, num_deg, den_deg, alphas, i, quo, rem, cf_ret,
          a, b, hs_n, s, hs_val,                        \* coefficients2hs and hs
          w,            \* the argument of the last call of hw, hwmag or hwphase
          hw_val,       \* what hw returned in that call
          hwmag_val,    \* what hwmag returned, if it was the function called
          hwphase_val,  \* what hwphase returned, if it was the function called
          b0,           \* the contents b had when coefficients2hs was called
          fn,           \* the function called last: "hs", "hw", "hwmag", "hwphase"
          again,        \* that call had the function and the argument of the
                        \* call before it, with no assignment to b in between
          filter_func,  \* the attribute filter_func of each helper of main()
          helper,       \* the helper called last
          demo_n,       \* the n it was called with
          demo_eps,     \* the eps it was called with, 0 for a helper without eps
          demo_ret      \* what it returned

ih_vars == <<pol, get_cof, even_pol, odd_pol, n, m, ret>>
cf_vars == <<num0, den0, num, den, num_deg, den_deg, alphas, i, quo, rem, cf_ret>>
hs_vars == <<a, b, hs_n, s, hs_val, w, hw_val, hwmag_val, hwphase_val, b0, fn, again>>
demo_vars == <<filter_func, helper, demo_n, demo_eps, demo_ret>>
vars == <<op, pc, err, ih_vars, cf_vars, hs_vars, demo_vars>>

----------------------------------------------------------------------------
(* Bounds of the inputs *)

MaxLen == 4        \* longest pol handed to is_hurwitz
MaxCoef == 2       \* its coefficients are in -MaxCoef..MaxCoef
CfMaxLen == 3      \* longest num and den handed to continued_fractions directly
CfMaxCoef == 1      \* their coefficients are in 0..CfMaxCoef
HsMaxOrder == 1    \* largest filter order n; b has up to HsMaxOrder + 1 entries
HsMaxCoef == 1     \* a and the entries of b are in -HsMaxCoef..HsMaxCoef
SMax == 1          \* s = x + jy with x, y in -SMax..SMax
DemoMaxOrder == 1  \* the helpers of main() get n = 4 or an n in 1..DemoMaxOrder
DemoMaxEps == 2    \* and an eps in 1..DemoMaxEps
WMax == 2          \* the frequency w is in -WMax..WMax

----------------------------------------------------------------------------
(* float64 arithmetic, as exact rationals *)

Abs(x) == IF x < 0 THEN -x ELSE x

RECURSIVE GCD(_, _)
GCD(x, y) == IF y = 0 THEN x ELSE GCD(y, x % y)

Rat(p, q) ==
    LET g == GCD(Abs(p), Abs(q))
        sg == IF q < 0 THEN -1 ELSE 1
    IN  <<(sg * p) \div g, (sg * q) \div g>>

Zero == <<0, 1>>
ToFloat(x) == <<x, 1>>
\* sums over the least common denominator, which keeps the products small
fadd(x, y) ==
    LET g == GCD(x[2], y[2])
    IN  Rat(x[1] * (y[2] \div g) + y[1] * (x[2] \div g), (x[2] \div g) * y[2])
fsub(x, y) ==
    LET g == GCD(x[2], y[2])
    IN  Rat(x[1] * (y[2] \div g) - y[1] * (x[2] \div g), (x[2] \div g) * y[2])
fmul(x, y) == Rat(x[1] * y[1], x[2] * y[2])
fdiv(x, y) == Rat(x[1] * y[2], x[2] * y[1])
Positive(x) == x[1] > 0

asarray(ints) == [k \in 1..Len(ints) |-> ToFloat(ints[k])]
\* np.ones in the place of np.zeros
zeros_as_ones(len) == [k \in 1..len |-> ToFloat(1)]

zeros(len) == [k \in 1..len |-> Zero]

SetMax(S) == CHOOSE x \in S : \A y \in S : y <= x

----------------------------------------------------------------------------
(* numpy calls of realizations.py *)

\* np.nonzero(arr)[0]: the Python indices of the nonzero entries
nonzero(arr) == {k \in 0..(Len(arr) - 1) : arr[k + 1] # Zero}

\* a degree that is 0 for an array without a nonzero entry, with no exception
degree_of_default(arr) ==
    IF nonzero(arr) = {} THEN [exc |-> "none", val |-> 0]
    ELSE [exc |-> "none", val |-> SetMax(nonzero(arr))]

\* np.nonzero(arr)[0][-1]: the index of the last nonzero entry; [-1] of an
\* empty index array raises IndexError
degree_of(arr) ==
    IF nonzero(arr) = {} THEN [exc |-> "IndexError", val |-> 0]
    ELSE [exc |-> "none", val |-> SetMax(nonzero(arr))]

\* pu.trimseq: drop the trailing zeros, keeping one entry of an all-zero series
trimseq(seq) ==
    IF Len(seq) = 0 \/ seq[Len(seq)] # Zero THEN seq
    ELSE IF nonzero(seq) = {} THEN SubSeq(seq, 1, 1)
    ELSE SubSeq(seq, 1, SetMax(nonzero(seq)) + 1)

\* the while loop of polydiv: c1[i:j] -= c2*c1[j] for i = dlen down to 0
RECURSIVE divloop(_, _, _, _)
divloop(c1, c2, ii, jj) ==
    IF ii < 0 THEN c1
    ELSE divloop([k \in 1..Len(c1) |->
                     IF k - 1 >= ii /\ k - 1 < jj
                     THEN fsub(c1[k], fmul(c2[k - ii], c1[jj + 1]))
                     ELSE c1[k]],
                 c2, ii - 1, jj - 1)

\* polynomial.polydiv(c1, c2): quotient and remainder, or the exception raised
polydiv(c1in, c2in) ==
    LET c1 == trimseq(c1in)
        c2 == trimseq(c2in)
        lc1 == Len(c1)
        lc2 == Len(c2)
    IN  IF lc1 = 0 \/ lc2 = 0
        THEN [exc |-> "ValueError", quo |-> <<>>, rem |-> <<>>]
        ELSE IF c2[lc2] = Zero
        THEN [exc |-> "ZeroDivisionError", quo |-> <<>>, rem |-> <<>>]
        ELSE IF lc1 < lc2
        THEN [exc |-> "none", quo |-> <<fmul(c1[1], Zero)>>, rem |-> c1]
        ELSE IF lc2 = 1
        THEN [exc |-> "none",
              quo |-> [k \in 1..lc1 |-> fdiv(c1[k], c2[lc2])],
              rem |-> <<fmul(c1[1], Zero)>>]
        ELSE LET scl == c2[lc2]
                 c2n == [k \in 1..(lc2 - 1) |-> fdiv(c2[k], scl)]
                 r == divloop(c1, c2n, lc1 - lc2, lc1 - 1)
             IN  [exc |-> "none",
                  quo |-> [k \in 1..(lc1 - lc2 + 1) |-> fdiv(r[lc2 - 1 + k], scl)],
                  rem |-> trimseq(SubSeq(r, 1, lc2 - 1))]

\* np.any in the place of np.all
any_positive(al) == \E k \in 1..Len(al) : Positive(al[k])

\* np.all(alphas > 0)
all_positive(al) == \A k \in 1..Len(al) : Positive(al[k])

----------------------------------------------------------------------------
(* Inputs *)

RECURSIVE SeqsUpTo(_, _)
SeqsUpTo(S, len) ==
    IF len = 0 THEN {<<>>}
    ELSE LET shorter == SeqsUpTo(S, len - 1)
         IN  shorter \cup {Append(q, x) : q \in {t \in shorter : Len(t) = len - 1}, x \in S}

\* the arrays of the __main__ block
pol1 == <<6, 11, 6, 1>>
pol2 == <<1, 1, 1, 2>>
pol3 == <<1, 2, 2, 1>>
demo_num == <<6, 0, 8, 0, 2>>
demo_den == <<0, 2, 0, 1, 0>>

PolInputs == SeqsUpTo((-MaxCoef)..MaxCoef, MaxLen) \cup {pol1, pol2, pol3}
CfInputs == SeqsUpTo(0..CfMaxCoef, CfMaxLen)
HsDenInputs == SeqsUpTo((-HsMaxCoef)..HsMaxCoef, HsMaxOrder + 1) \ {<<>>}
SInputs == ((-SMax)..SMax) \X ((-SMax)..SMax)
WInputs == (-WMax)..WMax

----------------------------------------------------------------------------
(* is_hurwitz(pol, get_cof), realizations.py *)

\* range(0, p + 1): every index
even_idx_all(p) == 0..p

\* line 63: range(0, p + 1, 2)
even_idx(p) == {k \in 0..p : k % 2 = 0}
\* range(1, p, 2): the last index left out
odd_idx_short(p) == {k \in 0..(p - 1) : k % 2 = 1}

odd_idx(p) == {k \in 0..p : k % 2 = 1}

\* dst[idx] = src[idx]
put(dst, idx, src) ==
    [k \in 1..Len(dst) |-> IF (k - 1) \in idx THEN ToFloat(src[k]) ELSE dst[k]]

\* lines 62-68: the even and the odd part of pol
IH_Split ==
    /\ pc = "ih_split"
    /\ LET p == Len(pol) - 1
       IN  /\ even_pol' = put(zeros(p + 1), even_idx(p), pol)
           /\ odd_pol' = put(zeros(p + 1), odd_idx(p), pol)
    /\ pc' = "ih_degrees"
    /\ UNCHANGED <<demo_vars, op, err, pol, get_cof, n, m, ret, cf_vars, hs_vars>>

\* lines 69-70: n, then m
IH_Degrees ==
    /\ pc = "ih_degrees"
    /\ IF degree_of(odd_pol).exc # "none"
       THEN /\ err' = degree_of(odd_pol).exc /\ pc' = "raised" /\ UNCHANGED <<n, m>>
       ELSE /\ n' = degree_of(odd_pol).val
            /\ IF degree_of(even_pol).exc # "none"
               THEN /\ err' = degree_of(even_pol).exc /\ pc' = "raised" /\ UNCHANGED m
               ELSE /\ m' = degree_of(even_pol).val
                    /\ pc' = "ih_choose"
                    /\ UNCHANGED err
    /\ UNCHANGED <<demo_vars, op, pol, get_cof, even_pol, odd_pol, ret, cf_vars, hs_vars>>

\* the comparison of line 73 turned around
choose_num_den_lt(mm, nn, ev, od) ==
    IF mm < nn THEN <<ev, od>> ELSE <<od, ev>>

\* lines 73-76: which part is the numerator
choose_num_den(mm, nn, ev, od) ==
    IF mm > nn THEN <<ev, od>> ELSE <<od, ev>>

\* lines 73-77: choose num and den and call continued_fractions(num, den)
IH_Choose ==
    /\ pc = "ih_choose"
    /\ LET nd == choose_num_den(m, n, even_pol, odd_pol)
       IN  /\ num0' = nd[1] /\ den0' = nd[2]
           /\ num' = nd[1] /\ den' = nd[2]
    /\ pc' = "cf_degrees"
    /\ UNCHANGED <<demo_vars, op, err, ih_vars, num_deg, den_deg, alphas, i, quo, rem, cf_ret, hs_vars>>

\* np.all(alphas) in the place of np.all(alphas > 0): true of nonzero alphas
is_hurwitz_result_nonzero(al, gc) ==
    IF gc THEN [bool |-> \A k \in 1..Len(al) : al[k] # Zero, tuple |-> TRUE, cof |-> al]
    ELSE [bool |-> \A k \in 1..Len(al) : al[k] # Zero, tuple |-> FALSE, cof |-> <<>>]

\* lines 79-81: the boolean, with the coefficients when get_cof
is_hurwitz_result(al, gc) ==
    IF gc THEN [bool |-> all_positive(al), tuple |-> TRUE, cof |-> al]
    ELSE [bool |-> all_positive(al), tuple |-> FALSE, cof |-> <<>>]

IH_Return ==
    /\ pc = "ih_return"
    /\ ret' = is_hurwitz_result(cf_ret, get_cof)
    /\ pc' = "returned"
    /\ UNCHANGED <<demo_vars, op, err, pol, get_cof, even_pol, odd_pol, n, m, cf_vars, hs_vars>>

----------------------------------------------------------------------------
(* continued_fractions(num, den), realizations.py *)

\* lines 29-30: the ValueError is constructed but not raised, so the
\* comparison of the degrees ends no call
degree_order_exception(nd, dd) ==
    IF dd > nd THEN "none" ELSE "none"

\* lines 27-33: the degrees, the degree check and the array of the alphas
CF_Degrees ==
    /\ pc = "cf_degrees"
    /\ IF degree_of(num).exc # "none"
       THEN /\ err' = degree_of(num).exc /\ pc' = "raised"
            /\ UNCHANGED <<num_deg, den_deg, alphas, i>>
       ELSE /\ num_deg' = degree_of(num).val
            /\ IF degree_of(den).exc # "none"
               THEN /\ err' = degree_of(den).exc /\ pc' = "raised"
                    /\ UNCHANGED <<den_deg, alphas, i>>
               ELSE /\ den_deg' = degree_of(den).val
                    /\ IF degree_order_exception(num_deg', den_deg') # "none"
                       THEN /\ err' = degree_order_exception(num_deg', den_deg')
                            /\ pc' = "raised"
                            /\ UNCHANGED <<alphas, i>>
                       ELSE /\ alphas' = zeros(num_deg')
                            /\ i' = 0
                            /\ pc' = "cf_loop"
                            /\ UNCHANGED err
    /\ UNCHANGED <<demo_vars, op, ih_vars, num0, den0, num, den, quo, rem, cf_ret, hs_vars>>

\* range(num_deg - 1): one pass fewer
in_range_short(ii, nd) == ii < nd - 1

\* line 34: for i in range(num_deg)
in_range(ii, nd) == ii < nd

\* quo[0] in the place of quo[1]
alpha_of_constant(q) == q[1]

\* line 36: the entry of quo stored as alpha (Python index 1)
alpha_of(q) == q[2]

\* a body that goes on to the next pass when polydiv raises ZeroDivisionError
loop_body_skip_zero(nm, dn, al, ii, qu, re) ==
    LET d == polydiv(nm, dn)
    IN  IF d.exc = "ZeroDivisionError"
        THEN [exc |-> "none", quo |-> qu, rem |-> re,
              alphas |-> al, num |-> nm, den |-> dn, i |-> ii + 1]
        ELSE IF d.exc # "none"
        THEN [exc |-> d.exc, quo |-> qu, rem |-> re,
              alphas |-> al, num |-> nm, den |-> dn, i |-> ii]
        ELSE IF Len(d.quo) < 2
        THEN [exc |-> "IndexError", quo |-> d.quo, rem |-> d.rem,
              alphas |-> al, num |-> nm, den |-> dn, i |-> ii]
        ELSE [exc |-> "none", quo |-> d.quo, rem |-> d.rem,
              alphas |-> [al EXCEPT ![ii + 1] = alpha_of(d.quo)],
              num |-> dn, den |-> d.rem, i |-> ii + 1]

\* a body whose last line is num, den = rem, den
loop_body_swapped(nm, dn, al, ii, qu, re) ==
    LET d == polydiv(nm, dn)
    IN  IF d.exc # "none"
        THEN [exc |-> d.exc, quo |-> qu, rem |-> re,
              alphas |-> al, num |-> nm, den |-> dn, i |-> ii]
        ELSE IF Len(d.quo) < 2
        THEN [exc |-> "IndexError", quo |-> d.quo, rem |-> d.rem,
              alphas |-> al, num |-> nm, den |-> dn, i |-> ii]
        ELSE [exc |-> "none", quo |-> d.quo, rem |-> d.rem,
              alphas |-> [al EXCEPT ![ii + 1] = alpha_of(d.quo)],
              num |-> d.rem, den |-> dn, i |-> ii + 1]

\* lines 35-37: the body of the loop, from the locals before it to the
\* locals after it; exc is the exception that leaves it
loop_body(nm, dn, al, ii, qu, re) ==
    LET d == polydiv(nm, dn)
    IN  IF d.exc # "none"
        THEN [exc |-> d.exc, quo |-> qu, rem |-> re,
              alphas |-> al, num |-> nm, den |-> dn, i |-> ii]
        ELSE IF Len(d.quo) < 2
        THEN [exc |-> "IndexError", quo |-> d.quo, rem |-> d.rem,
              alphas |-> al, num |-> nm, den |-> dn, i |-> ii]
        ELSE [exc |-> "none", quo |-> d.quo, rem |-> d.rem,
              alphas |-> [al EXCEPT ![ii + 1] = alpha_of(d.quo)],
              num |-> dn, den |-> d.rem, i |-> ii + 1]

\* a pass whose last line assigns into the arrays of the caller, as
\* num[:], den[:] = den, rem would
CF_Step_in_place ==
    /\ pc = "cf_loop"
    /\ in_range(i, num_deg)
    /\ LET r == loop_body(num, den, alphas, i, quo, rem)
       IN  /\ quo' = r.quo /\ rem' = r.rem /\ alphas' = r.alphas
           /\ num' = r.num /\ den' = r.den /\ i' = r.i
           /\ num0' = r.num /\ den0' = r.den
           /\ IF r.exc # "none"
              THEN /\ err' = r.exc /\ pc' = "raised"
              ELSE UNCHANGED <<err, pc>>
    /\ UNCHANGED <<demo_vars, op, ih_vars, num_deg, den_deg, cf_ret, hs_vars>>

\* lines 34-37: one pass of the loop; num and den are rebound, the arrays
\* of the caller (num0, den0) are not written
CF_Step ==
    /\ pc = "cf_loop"
    /\ in_range(i, num_deg)
    /\ LET r == loop_body(num, den, alphas, i, quo, rem)
       IN  /\ quo' = r.quo /\ rem' = r.rem /\ alphas' = r.alphas
           /\ num' = r.num /\ den' = r.den /\ i' = r.i
           /\ IF r.exc # "none"
              THEN /\ err' = r.exc /\ pc' = "raised"
              ELSE UNCHANGED <<err, pc>>
    /\ UNCHANGED <<demo_vars, op, ih_vars, num0, den0, num_deg, den_deg, cf_ret, hs_vars>>

\* a loop that also ends as soon as den is the zero polynomial
CF_Return_on_zero_den ==
    /\ pc = "cf_loop"
    /\ ~in_range(i, num_deg) \/ nonzero(den) = {}
    /\ cf_ret' = alphas
    /\ pc' = IF op = "is_hurwitz" THEN "ih_return" ELSE "returned"
    /\ UNCHANGED <<demo_vars, op, err, ih_vars, num0, den0, num, den, num_deg, den_deg,
                   alphas, i, quo, rem, hs_vars>>

\* line 39: return alphas, to is_hurwitz (line 77) or to the caller
CF_Return ==
    /\ pc = "cf_loop"
    /\ ~in_range(i, num_deg)
    /\ cf_ret' = alphas
    /\ pc' = IF op = "is_hurwitz" THEN "ih_return" ELSE "returned"
    /\ UNCHANGED <<demo_vars, op, err, ih_vars, num0, den0, num, den, num_deg, den_deg,
                   alphas, i, quo, rem, hs_vars>>

----------------------------------------------------------------------------
(* coefficients2hs(a, b, n) and the function hs it returns,                *)
(* filter_prototypes.py.  A complex number is <<re, im>>.                  *)

COne == <<ToFloat(1), Zero>>
CZero == <<Zero, Zero>>
cadd(x, y) == <<fadd(x[1], y[1]), fadd(x[2], y[2])>>
cmul(x, y) == <<fsub(fmul(x[1], y[1]), fmul(x[2], y[2])),
                fadd(fmul(x[1], y[2]), fmul(x[2], y[1]))>>

\* s ** k for an integer k >= 0
RECURSIVE cpow(_, _)
cpow(x, k) == IF k = 0 THEN COne ELSE cmul(x, cpow(x, k - 1))

\* a list that pairs b[n-k] with s ** k
terms_descending(bb, nn, ss) ==
    [t \in 1..(nn + 1) |->
        LET k == nn - (t - 1) IN cmul(<<bb[nn - k + 1], Zero>>, cpow(ss, k))]

\* line 32: [b[k] * s ** k for k in range(int(n), -1, -1)]
terms(bb, nn, ss) ==
    [t \in 1..(nn + 1) |->
        LET k == nn - (t - 1) IN cmul(<<bb[k + 1], Zero>>, cpow(ss, k))]

\* np.sum(list, axis=0)
RECURSIVE np_sum(_)
np_sum(list) ==
    IF Len(list) = 0 THEN CZero
    ELSE cadd(np_sum(SubSeq(list, 1, Len(list) - 1)), list[Len(list)])

\* a guarded division: 0 where the denominator is 0
true_divide_guarded(aa, d) ==
    IF d = CZero
    THEN [re_kind |-> "finite", im_kind |-> "finite", re |-> Zero, im |-> Zero,
          re_neg |-> FALSE, im_neg |-> FALSE]
    ELSE LET norm2 == fadd(fmul(d[1], d[1]), fmul(d[2], d[2]))
             re == fdiv(fmul(aa, d[1]), norm2)
             im == fdiv(fmul(aa, fsub(Zero, d[2])), norm2)
         IN  [re_kind |-> "finite", im_kind |-> "finite", re |-> re, im |-> im,
              re_neg |-> re[1] < 0, im_neg |-> im[1] < 0]

\* line 32: a / d for a real a and a complex d, numpy's complex division of
\* a + 0j by d.  A zero d gives a/0 and 0/0, infinities and not-a-number,
\* and no exception.  re_neg and im_neg are the sign bits; the sign of a
\* zero component is the sign of the divisor's component of larger
\* magnitude, except that the imaginary part of 0/d has the sign of Re(d).
true_divide(aa, d) ==
    IF d = CZero
    THEN [re_kind |-> IF aa[1] > 0 THEN "inf" ELSE IF aa[1] < 0 THEN "-inf" ELSE "nan",
          im_kind |-> "nan", re |-> Zero, im |-> Zero,
          re_neg |-> aa[1] < 0, im_neg |-> FALSE]
    ELSE LET norm2 == fadd(fmul(d[1], d[1]), fmul(d[2], d[2]))
             re == fdiv(fmul(aa, d[1]), norm2)
             im == fdiv(fmul(aa, fsub(Zero, d[2])), norm2)
             real_larger == fmul(d[1], d[1])[1] * fmul(d[2], d[2])[2]
                              >= fmul(d[2], d[2])[1] * fmul(d[1], d[1])[2]
         IN  [re_kind |-> "finite", im_kind |-> "finite", re |-> re, im |-> im,
              re_neg |-> IF re # Zero THEN re[1] < 0
                         ELSE IF real_larger THEN d[1][1] < 0 ELSE d[2][1] < 0,
              im_neg |-> IF im # Zero THEN im[1] < 0 ELSE d[1][1] < 0]

NoValue == [re_kind |-> "unset", im_kind |-> "unset", re |-> Zero, im |-> Zero,
            re_neg |-> FALSE, im_neg |-> FALSE]

\* lines 31-32: def hs(s): return a / np.sum([...], axis=0)
hs(aa, bb, nn, ss) == true_divide(aa, np_sum(terms(bb, nn, ss)))

\* w in the place of 1j * w
j_times_real(ww) == <<ww, Zero>>

\* line 53: 1j * w
j_times(ww) == cmul(<<Zero, ToFloat(1)>>, <<ww, Zero>>)

\* lines 52-53: def hw(w): return hs(1j * w), for the hs of a, b and n
hs2hw(aa, bb, nn, ww) == hs(aa, bb, nn, j_times(ww))

\* the real part in the place of the modulus
np_abs_real_part(z) ==
    IF z.re_kind = "nan" THEN [kind |-> "nan", sign |-> 0, sq |-> Zero]
    ELSE IF z.re_kind # "finite" THEN [kind |-> z.re_kind, sign |-> 0, sq |-> Zero]
    ELSE [kind |-> "finite",
          sign |-> IF z.re[1] > 0 THEN 1 ELSE IF z.re[1] < 0 THEN -1 ELSE 0,
          sq |-> fmul(z.re, z.re)]

\* line 75: np.abs of a complex number, hypot(re, im).  A finite result is
\* the real number sign * sqrt(sq); an infinite component gives inf, and
\* not-a-number components without an infinite one give nan.
np_abs(z) ==
    IF z.re_kind \in {"inf", "-inf"} \/ z.im_kind \in {"inf", "-inf"}
    THEN [kind |-> "inf", sign |-> 0, sq |-> Zero]
    ELSE IF z.re_kind = "nan" \/ z.im_kind = "nan"
    THEN [kind |-> "nan", sign |-> 0, sq |-> Zero]
    ELSE LET sq == fadd(fmul(z.re, z.re), fmul(z.im, z.im))
         IN  [kind |-> "finite", sign |-> IF sq = Zero THEN 0 ELSE 1, sq |-> sq]

NoMag == [kind |-> "unset", sign |-> 0, sq |-> Zero]

\* lines 74-75: def hwmag(w): return np.abs(hw(w))
hw2hwmag(aa, bb, nn, ww) == np_abs(hs2hw(aa, bb, nn, ww))

\* an angle between lo and hi: the angle itself when lo = hi, and otherwise
\* the angle strictly between them whose tangent is tan
Angle(lo, hi, tan) == [kind |-> "finite", lo |-> lo, hi |-> hi, tan |-> tan]
NanAngle == [kind |-> "nan", lo |-> Zero, hi |-> Zero, tan |-> Zero]
NoPhase == [kind |-> "unset", lo |-> Zero, hi |-> Zero, tan |-> Zero]

\* np.arctan2(y, x) of finite y and x with the sign bits yneg and xneg, in
\* units of pi / 4: exact on the axes and the diagonals, and between two
\* neighbouring multiples of pi / 4 elsewhere
arctan2(y, yneg, x, xneg) ==
    LET ay == IF y[1] < 0 THEN fsub(Zero, y) ELSE y
        ax == IF x[1] < 0 THEN fsub(Zero, x) ELSE x
        cmp == ay[1] * ax[2] - ax[1] * ay[2]      \* the sign of |y| - |x|
        tan == IF x = Zero THEN Zero ELSE fdiv(y, x)
        \* the angle of (|x|, |y|), in 0..2 quarter turns of pi / 4
        lo1 == IF y = Zero THEN 0 ELSE IF x = Zero THEN 2
               ELSE IF cmp < 0 THEN 0 ELSE 1
        hi1 == IF y = Zero THEN 0 ELSE IF x = Zero THEN 2
               ELSE IF cmp > 0 THEN 2 ELSE 1
        \* mirrored in the imaginary axis where x is negative
        lo2 == IF xneg THEN 4 - hi1 ELSE lo1
        hi2 == IF xneg THEN 4 - lo1 ELSE hi1
    IN  \* and in the real axis where y is negative
        IF yneg THEN Angle(ToFloat(-hi2), ToFloat(-lo2), tan)
        ELSE Angle(ToFloat(lo2), ToFloat(hi2), tan)

\* line 97: np.angle(z) = arctan2(z.imag, z.real), as a multiple of pi;
\* not-a-number when a component of z is not finite
np_angle(z) ==
    IF z.re_kind # "finite" \/ z.im_kind # "finite" THEN NanAngle
    ELSE LET r == arctan2(z.im, z.im_neg, z.re, z.re_neg)
         IN  Angle(fdiv(r.lo, ToFloat(4)), fdiv(r.hi, ToFloat(4)), r.tan)

\* the angle left in radians
times_180_over_pi_missing(ang) == ang

\* line 97: ... * 180 / np.pi, on an angle given as a multiple of pi
times_180_over_pi(ang) ==
    [ang EXCEPT !.lo = fmul(ang.lo, ToFloat(180)), !.hi = fmul(ang.hi, ToFloat(180))]

\* lines 96-97: def hwphase(w): return np.angle(hw(w)) * 180 / np.pi
hw2hwphase(aa, bb, nn, ww) == times_180_over_pi(np_angle(hs2hw(aa, bb, nn, ww)))

\* lines 11-34: def hs ...; return hs
HS_Construct ==
    /\ pc = "hs_construct"
    /\ pc' = "hs_ready"
    /\ UNCHANGED <<demo_vars, op, err, ih_vars, cf_vars, hs_vars>>

\* a call hs(s) that also adds 1 to a
HS_Call_counting ==
    /\ pc = "hs_ready"
    /\ \E sv \in SInputs :
          /\ s' = <<ToFloat(sv[1]), ToFloat(sv[2])>>
          /\ fn' = "hs" /\ again' = (fn = "hs" /\ s' = s)
          /\ IF hs_n + 1 > Len(b)
             THEN /\ err' = "IndexError" /\ pc' = "raised" /\ UNCHANGED hs_val
             ELSE /\ hs_val' = hs(a, b, hs_n, s')
                  /\ pc' = "hs_called" /\ UNCHANGED err
    /\ a' = fadd(a, ToFloat(1))
    /\ w' = Zero /\ hw_val' = NoValue /\ hwmag_val' = NoMag /\ hwphase_val' = NoPhase
    /\ UNCHANGED <<demo_vars, op, ih_vars, cf_vars, b, hs_n, b0>>

\* lines 31-32: a call hs(s); b[k] beyond the end of b raises IndexError.
\* pc = "hs_called": the call has returned and its value is with the caller
HS_Call ==
    /\ pc = "hs_ready"
    /\ \E sv \in SInputs :
          /\ s' = <<ToFloat(sv[1]), ToFloat(sv[2])>>
          /\ fn' = "hs" /\ again' = (fn = "hs" /\ s' = s)
          /\ IF hs_n + 1 > Len(b)
             THEN /\ err' = "IndexError" /\ pc' = "raised" /\ UNCHANGED hs_val
             ELSE /\ hs_val' = hs(a, b, hs_n, s')
                  /\ pc' = "hs_called" /\ UNCHANGED err
    /\ w' = Zero /\ hw_val' = NoValue /\ hwmag_val' = NoMag /\ hwphase_val' = NoPhase
    /\ UNCHANGED <<demo_vars, op, ih_vars, cf_vars, a, b, hs_n, b0>>

\* lines 52-53: a call hw(w) of hw = hs2hw(hs); the IndexError of hs passes
\* through
HW_Call ==
    /\ pc = "hs_ready"
    /\ \E wv \in WInputs :
          /\ w' = ToFloat(wv)
          /\ fn' = "hw" /\ again' = (fn = "hw" /\ w' = w)
          /\ s' = j_times(w')
          /\ IF hs_n + 1 > Len(b)
             THEN /\ err' = "IndexError" /\ pc' = "raised"
                  /\ hs_val' = NoValue /\ hw_val' = NoValue
             ELSE /\ hs_val' = hs(a, b, hs_n, s')
                  /\ hw_val' = hs2hw(a, b, hs_n, w')
                  /\ pc' = "hs_called" /\ UNCHANGED err
    /\ hwmag_val' = NoMag /\ hwphase_val' = NoPhase
    /\ UNCHANGED <<demo_vars, op, ih_vars, cf_vars, a, b, hs_n, b0>>

\* lines 74-75: a call hwmag(w) of hwmag = hw2hwmag(hs2hw(hs))
HWMAG_Call ==
    /\ pc = "hs_ready"
    /\ \E wv \in WInputs :
          /\ w' = ToFloat(wv)
          /\ fn' = "hwmag" /\ again' = (fn = "hwmag" /\ w' = w)
          /\ s' = j_times(w')
          /\ IF hs_n + 1 > Len(b)
             THEN /\ err' = "IndexError" /\ pc' = "raised"
                  /\ hs_val' = NoValue /\ hw_val' = NoValue /\ hwmag_val' = NoMag
             ELSE /\ hs_val' = hs(a, b, hs_n, s')
                  /\ hw_val' = hs2hw(a, b, hs_n, w')
                  /\ hwmag_val' = hw2hwmag(a, b, hs_n, w')
                  /\ pc' = "hs_called" /\ UNCHANGED err
    /\ hwphase_val' = NoPhase
    /\ UNCHANGED <<demo_vars, op, ih_vars, cf_vars, a, b, hs_n, b0>>

\* lines 96-97: a call hwphase(w) of hwphase = hw2hwphase(hs2hw(hs))
HWPHASE_Call ==
    /\ pc = "hs_ready"
    /\ \E wv \in WInputs :
          /\ w' = ToFloat(wv)
          /\ fn' = "hwphase" /\ again' = (fn = "hwphase" /\ w' = w)
          /\ s' = j_times(w')
          /\ IF hs_n + 1 > Len(b)
             THEN /\ err' = "IndexError" /\ pc' = "raised"
                  /\ hs_val' = NoValue /\ hw_val' = NoValue /\ hwphase_val' = NoPhase
             ELSE /\ hs_val' = hs(a, b, hs_n, s')
                  /\ hw_val' = hs2hw(a, b, hs_n, w')
                  /\ hwphase_val' = hw2hwphase(a, b, hs_n, w')
                  /\ pc' = "hs_called" /\ UNCHANGED err
    /\ hwmag_val' = NoMag
    /\ UNCHANGED <<demo_vars, op, ih_vars, cf_vars, a, b, hs_n, b0>>

----------------------------------------------------------------------------
(* The calls a caller can make *)

\* the caller goes on to another call of the same functions
Caller_Continue ==
    /\ pc = "hs_called"
    /\ pc' = "hs_ready"
    /\ UNCHANGED <<demo_vars, op, err, ih_vars, cf_vars, hs_vars>>

\* the caller assigns to the first entry of the array it passed as b,
\* b[0] = v, drops the values it got before and goes on; hs holds the same
\* array (line 32 reads b at each call, nothing copies it)
Caller_Modify ==
    /\ pc = "hs_called"
    /\ \E v \in (-HsMaxCoef)..HsMaxCoef :
          /\ b[1] # ToFloat(v)
          /\ b' = [b EXCEPT ![1] = ToFloat(v)]
    /\ pc' = "hs_ready"
    /\ s' = CZero /\ hs_val' = NoValue
    /\ w' = Zero /\ hw_val' = NoValue /\ hwmag_val' = NoMag /\ hwphase_val' = NoPhase
    /\ fn' = "none" /\ again' = FALSE
    /\ UNCHANGED <<demo_vars, op, err, ih_vars, cf_vars, a, hs_n, b0>>

IH_Idle ==
    /\ pol = <<>> /\ get_cof = FALSE
    /\ even_pol = <<>> /\ odd_pol = <<>> /\ n = 0 /\ m = 0
    /\ ret = [bool |-> FALSE, tuple |-> FALSE, cof |-> <<>>]

CF_Locals ==
    /\ num_deg = 0 /\ den_deg = 0 /\ alphas = <<>> /\ i = 0
    /\ quo = <<>> /\ rem = <<>> /\ cf_ret = <<>>

HS_Idle ==
    /\ a = Zero /\ b = <<>> /\ hs_n = 0 /\ s = CZero /\ hs_val = NoValue
    /\ w = Zero /\ hw_val = NoValue /\ hwmag_val = NoMag /\ hwphase_val = NoPhase
    /\ b0 = <<>> /\ fn = "none" /\ again = FALSE

\* a helper without the attribute filter_func
NoFilter == [stage |-> "none", family |-> "none", n |-> 0, eps |-> 0]

Helpers == {"butter_hw_mag", "butter_hw_phase", "cheby_hw_mag", "cheby_hw_phase"}

\* a value returned by a helper: the pair (w, filter(w))
NoReturn == [w |-> "none", filter |-> NoFilter]

\* main() of filter_prototypes.py is not running
DEMO_Idle ==
    /\ filter_func = [h \in Helpers |-> NoFilter]
    /\ helper = "none" /\ demo_n = 0 /\ demo_eps = 0 /\ demo_ret = NoReturn

\* is_hurwitz(pol, get_cof) on an array pol
InitIsHurwitz ==
    /\ op = "is_hurwitz" /\ pc = "ih_split" /\ err = "none"
    /\ pol \in PolInputs /\ get_cof \in BOOLEAN
    /\ even_pol = <<>> /\ odd_pol = <<>> /\ n = 0 /\ m = 0
    /\ ret = [bool |-> FALSE, tuple |-> FALSE, cof |-> <<>>]
    /\ num0 = <<>> /\ den0 = <<>> /\ num = <<>> /\ den = <<>>
    /\ CF_Locals /\ HS_Idle /\ DEMO_Idle

\* continued_fractions(num, den) called directly, as in line 98
InitContinuedFractions ==
    /\ op = "continued_fractions" /\ pc = "cf_degrees" /\ err = "none"
    /\ IH_Idle
    /\ \/ \E nn \in CfInputs, dd \in CfInputs :
             num0 = asarray(nn) /\ den0 = asarray(dd)
       \/ num0 = asarray(demo_num) /\ den0 = asarray(demo_den)
    /\ num = num0 /\ den = den0
    /\ CF_Locals /\ HS_Idle /\ DEMO_Idle

\* hs = coefficients2hs(a, b, n)
InitCoefficients2hs ==
    /\ op = "coefficients2hs" /\ pc = "hs_construct" /\ err = "none"
    /\ IH_Idle
    /\ num0 = <<>> /\ den0 = <<>> /\ num = <<>> /\ den = <<>>
    /\ CF_Locals
    /\ \E av \in (-HsMaxCoef)..HsMaxCoef : a = ToFloat(av)
    /\ \E bv \in HsDenInputs : b = asarray(bv)
    /\ hs_n \in 0..HsMaxOrder
    /\ s = CZero /\ hs_val = NoValue
    /\ w = Zero /\ hw_val = NoValue /\ hwmag_val = NoMag /\ hwphase_val = NoPhase
    /\ b0 = b /\ fn = "none" /\ again = FALSE
    /\ DEMO_Idle

Init == InitIsHurwitz \/ InitContinuedFractions \/ InitCoefficients2hs

Next ==
    \/ IH_Split
    \/ IH_Degrees
    \/ IH_Choose
    \/ IH_Return
    \/ CF_Degrees
    \/ CF_Step
    \/ CF_Return
    \/ HS_Construct
    \/ HS_Call
    \/ HW_Call
    \/ HWMAG_Call
    \/ HWPHASE_Call

Spec == Init /\ [][Next]_vars

\* a caller that builds the functions for a = 1 and an order-1 denominator,
\* as main() does with the numerator [1.] of signal.butter, and calls them
\* again and again, with assignments to b in between
InitCalls ==
    /\ InitCoefficients2hs
    /\ a = ToFloat(1) /\ hs_n = 1 /\ Len(b) = 2

NextCalls ==
    \/ HS_Construct
    \/ HS_Call
    \/ HW_Call
    \/ HWMAG_Call
    \/ HWPHASE_Call
    \/ Caller_Continue
    \/ Caller_Modify

SpecCalls == InitCalls /\ [][NextCalls]_vars

----------------------------------------------------------------------------
(* The helpers of main(), filter_prototypes.py lines 108-130.  The         *)
(* coefficients scipy designs are kept as the design itself: family, order *)
(* and ripple; a filter is the stage built on a design.                    *)

DemoOrders == (1..DemoMaxOrder) \cup {4}     \* 4 is the default n
DemoRipples == 1..DemoMaxEps                 \* 1 is the default eps

\* lines 110, 116: signal.butter(n, 1., btype='low', analog=True)
butter(nn) == [family |-> "butter", n |-> nn, eps |-> 0]

\* lines 122, 128: signal.cheby1(n, eps, 1., btype='low', analog=True)
cheby1(nn, ee) == [family |-> "cheby1", n |-> nn, eps |-> ee]

\* lines 111, 123: hw2hwmag(hs2hw(coefficients2hs(a, b[::-1], n=n)))
mag_filter(design) == [stage |-> "hwmag", family |-> design.family,
                       n |-> design.n, eps |-> design.eps]

\* lines 117, 129: hw2hwphase(hs2hw(coefficients2hs(a, b[::-1], n=n)))
phase_filter(design) == [stage |-> "hwphase", family |-> design.family,
                         n |-> design.n, eps |-> design.eps]

\* a helper that builds its filter at every call, as the helpers of
\* magnitude_phase_nyquist.py do
built_at_every_call(attrs, h, built) == [attrs EXCEPT ![h] = built]

\* lines 109-111 (115-117, 121-123, 127-129): if not hasattr(h,
\* 'filter_func'): h.filter_func = built
built_once(attrs, h, built) ==
    IF attrs[h] = NoFilter THEN [attrs EXCEPT ![h] = built] ELSE attrs

\* the domain of line 133, np.linspace(0, 5, 1001)
domain == "domain"

\* lines 108-112: butter_hw_mag(w, n)
Butter_hw_mag ==
    /\ op = "main" /\ pc = "demo_ready"
    /\ \E nn \in DemoOrders :
          /\ demo_n' = nn /\ demo_eps' = 0
          /\ filter_func' = built_once(filter_func, "butter_hw_mag", mag_filter(butter(nn)))
    /\ helper' = "butter_hw_mag"
    /\ demo_ret' = [w |-> domain, filter |-> filter_func'["butter_hw_mag"]]
    /\ UNCHANGED <<op, pc, err, ih_vars, cf_vars, hs_vars>>

\* lines 114-118: butter_hw_phase(w, n); line 118 evaluates
\* butter_hw_mag.filter_func, an AttributeError when butter_hw_mag has not
\* been called
Butter_hw_phase ==
    /\ op = "main" /\ pc = "demo_ready"
    /\ \E nn \in DemoOrders :
          /\ demo_n' = nn /\ demo_eps' = 0
          /\ filter_func' = built_once(filter_func, "butter_hw_phase", phase_filter(butter(nn)))
    /\ helper' = "butter_hw_phase"
    /\ IF filter_func'["butter_hw_mag"] = NoFilter
       THEN /\ err' = "AttributeError" /\ pc' = "raised" /\ demo_ret' = NoReturn
       ELSE /\ demo_ret' = [w |-> domain, filter |-> filter_func'["butter_hw_mag"]]
            /\ UNCHANGED <<err, pc>>
    /\ UNCHANGED <<op, ih_vars, cf_vars, hs_vars>>

\* lines 120-124: cheby_hw_mag(w, n, eps)
Cheby_hw_mag ==
    /\ op = "main" /\ pc = "demo_ready"
    /\ \E nn \in DemoOrders, ee \in DemoRipples :
          /\ demo_n' = nn /\ demo_eps' = ee
          /\ filter_func' = built_once(filter_func, "cheby_hw_mag", mag_filter(cheby1(nn, ee)))
    /\ helper' = "cheby_hw_mag"
    /\ demo_ret' = [w |-> domain, filter |-> filter_func'["cheby_hw_mag"]]
    /\ UNCHANGED <<op, pc, err, ih_vars, cf_vars, hs_vars>>

\* lines 126-130: cheby_hw_phase(w, n, eps)
Cheby_hw_phase ==
    /\ op = "main" /\ pc = "demo_ready"
    /\ \E nn \in DemoOrders, ee \in DemoRipples :
          /\ demo_n' = nn /\ demo_eps' = ee
          /\ filter_func' = built_once(filter_func, "cheby_hw_phase", phase_filter(cheby1(nn, ee)))
    /\ helper' = "cheby_hw_phase"
    /\ demo_ret' = [w |-> domain, filter |-> filter_func'["cheby_hw_phase"]]
    /\ UNCHANGED <<op, pc, err, ih_vars, cf_vars, hs_vars>>

\* main() has defined its helpers (lines 108-130) and called none
InitDemo ==
    /\ op = "main" /\ pc = "demo_ready" /\ err = "none"
    /\ IH_Idle
    /\ num0 = <<>> /\ den0 = <<>> /\ num = <<>> /\ den = <<>>
    /\ CF_Locals /\ HS_Idle /\ DEMO_Idle

NextDemo ==
    \/ Butter_hw_mag
    \/ Butter_hw_phase
    \/ Cheby_hw_mag
    \/ Cheby_hw_phase

SpecDemo == InitDemo /\ [][NextDemo]_vars

----------------------------------------------------------------------------
(* Notions the properties are stated in *)

IsZeroPoly(arr) == \A k \in 1..Len(arr) : arr[k] = Zero
Deg(arr) == SetMax({k \in 1..Len(arr) : arr[k] # Zero}) - 1

\* the coefficient of index k of x, zero beyond its end
At(x, k) == IF k <= Len(x) THEN x[k] ELSE Zero

\* the coefficient of index k of the product x*y: the sum over j = 1..upto
\* of x[j] * y[k + 1 - j]
RECURSIVE ConvSum(_, _, _, _)
ConvSum(x, y, k, upto) ==
    IF upto = 0 THEN Zero
    ELSE fadd(ConvSum(x, y, k, upto - 1),
              IF k + 1 - upto >= 1 THEN fmul(x[upto], At(y, k + 1 - upto)) ELSE Zero)

\* nm = q*dn + r, coefficient by coefficient
IsDivision(nm, dn, q, r) ==
    \A k \in 1..(Len(nm) + Len(q) + Len(dn)) :
        fadd(ConvSum(q, dn, k, Len(q)), At(r, k)) = At(nm, k)

CfRunning == op \in {"continued_fractions", "is_hurwitz"} /\ Len(num0) > 0
CfReturned == CfRunning /\ pc \in {"ih_return", "returned"}
IhReturned == op = "is_hurwitz" /\ pc = "returned"

----------------------------------------------------------------------------
(* C1: continued_fractions(num, den) with degree(num) < degree(den) raises *)
(* the degree-order error (ValueError): once the degrees are compared the  *)
(* call has ended with that error, it neither goes on nor returns nor      *)
(* fails with another error.                                               *)
C1_DegreeOrderRaises ==
    (/\ op = "continued_fractions"
     /\ ~IsZeroPoly(num0) /\ ~IsZeroPoly(den0)
     /\ Deg(num0) < Deg(den0)
     /\ pc # "cf_degrees")
    => (pc = "raised" /\ err = "ValueError")

----------------------------------------------------------------------------
(* Polynomials in s evaluated by Horner's rule *)

\* c[1]*x^(len-1) + ... + c[len]: the first entry multiplies the highest power
RECURSIVE HornerDescending(_, _, _)
HornerDescending(c, len, x) ==
    IF len = 0 THEN CZero
    ELSE cadd(cmul(HornerDescending(c, len - 1, x), x), <<c[len], Zero>>)

Reversed(c) == [k \in 1..Len(c) |-> c[Len(c) + 1 - k]]

\* c[1] + c[2]*x + ... + c[len]*x^(len-1): the first entry is the constant term
HornerAscending(c, len, x) == HornerDescending(Reversed(SubSeq(c, 1, len)), len, x)

HsCalled == op = "coefficients2hs" /\ pc \in {"hs_called", "hs_ready"} /\ hs_val # NoValue
IsFinite(v) == v.re_kind = "finite" /\ v.im_kind = "finite"

\* v is the quotient of the real aa by the complex d
IsQuotient(v, aa, d) ==
    IF d = CZero THEN ~IsFinite(v)
    ELSE IsFinite(v) /\ cmul(<<v.re, v.im>>, d) = <<aa, Zero>>

(* C2 as stated: for b of length n+1, hs(s) is a divided by the sum over   *)
(* k = 0..n of b[n-k] * s^k: b is read from the highest power down, b[0]   *)
(* multiplies s^n and b[n] is the constant term.                           *)
C2_DescendingDenominator ==
    (HsCalled /\ Len(b) = hs_n + 1)
    => IsQuotient(hs_val, a, HornerDescending(b, hs_n + 1, s))

(* C2 amended: for b of length n+1, hs(s) is a divided by the sum over     *)
(* k = 0..n of b[k] * s^k: b is read in ascending powers, b[0] is the      *)
(* constant term and b[n] multiplies s^n.                                  *)
C2_AscendingDenominator ==
    (HsCalled /\ Len(b) = hs_n + 1)
    => IsQuotient(hs_val, a, HornerAscending(b, hs_n + 1, s))

\* hs was called with an order-1 denominator whose ends differ, at an s
\* that is neither real nor a root
C2_Witness ==
    /\ HsCalled /\ hs_n = 1 /\ Len(b) = 2
    /\ b[1] # b[2] /\ b[1] # Zero /\ b[2] # Zero
    /\ s[1] # Zero /\ s[2] # Zero
    /\ a # Zero /\ IsFinite(hs_val)
    /\ HornerDescending(b, 2, s) # HornerAscending(b, 2, s)

----------------------------------------------------------------------------
(* The Routh-Hurwitz criterion on the integer coefficients of pol *)

IntDeg(c) == SetMax({k \in 1..Len(c) : c[k] # 0}) - 1
OneSign(c, d) == (\A k \in 1..(d + 1) : c[k] > 0) \/ (\A k \in 1..(d + 1) : c[k] < 0)

\* all roots in the open left half-plane, for degree 1 to 3; the product
\* condition a1*a2 > a0*a3 is the same for c and for -c
RouthHurwitz(c) ==
    LET d == IntDeg(c)
    IN  /\ OneSign(c, d)
        /\ d = 3 => c[2] * c[3] > c[1] * c[4]

(* C3: for a pol of degree 1 to 3 on which is_hurwitz returns (it has a    *)
(* nonzero even-indexed and a nonzero odd-indexed coefficient and the      *)
(* expansion ends without error), the boolean returned is True exactly     *)
(* when the Routh-Hurwitz criterion holds for pol.                         *)
C3_AgreesWithRouthHurwitz ==
    (IhReturned /\ IntDeg(pol) \in 1..3)
    => (ret.bool <=> RouthHurwitz(pol))

\* a cubic with positive coefficients that is rejected on a1*a2 <= a0*a3 alone
C3_Witness ==
    /\ IhReturned /\ IntDeg(pol) = 3
    /\ OneSign(pol, 3) /\ pol[2] * pol[3] <= pol[1] * pol[4]
    /\ ~ret.bool

(* C4: is_hurwitz returns True if and only if no alpha of the expansion    *)
(* returned by continued_fractions is zero or negative; with get_cof the   *)
(* boolean is the one returned without it, and the sequence returned with  *)
(* it is that expansion.                                                   *)
C4_TrueIffAllAlphasPositive ==
    IhReturned
    => /\ ret.bool <=> ~(\E k \in 1..Len(cf_ret) : cf_ret[k][1] <= 0)
       /\ ret.bool = is_hurwitz_result(cf_ret, ~get_cof).bool
       /\ ret.tuple = get_cof
       /\ get_cof => ret.cof = cf_ret
       /\ cf_ret = alphas

\* the expansion was asked for and one negative alpha among positive ones
\* gave False
C4_Witness ==
    /\ IhReturned /\ get_cof /\ ~ret.bool
    /\ Len(ret.cof) = 3
    /\ ret.cof[1][1] > 0 /\ ret.cof[2][1] < 0 /\ ret.cof[3][1] > 0

(* C5: when the denominator of a division step is the zero polynomial      *)
(* before the degree(num_initial) steps are done, the step ends the call   *)
(* with an error (ZeroDivisionError): no alpha sequence is returned and    *)
(* is_hurwitz returns nothing.                                             *)
C5_ZeroDenominatorFails ==
    [][(pc = "cf_loop" /\ i < Deg(num0) /\ IsZeroPoly(den))
       => (/\ pc' = "raised" /\ err' = "ZeroDivisionError"
           /\ cf_ret' = cf_ret /\ ret' = ret /\ alphas' = alphas)]_vars

\* is_hurwitz ended in the error after two steps were done
C5_Witness ==
    /\ op = "is_hurwitz" /\ pc = "raised" /\ err = "ZeroDivisionError"
    /\ i = 2 /\ IsZeroPoly(den) /\ Positive(alphas[1]) /\ Positive(alphas[2])

EvenAllZero(c) == \A k \in 1..Len(c) : (k - 1) % 2 = 0 => c[k] = 0
OddAllZero(c) == \A k \in 1..Len(c) : (k - 1) % 2 = 1 => c[k] = 0

(* C6: for a pol whose even-indexed coefficients are all zero or whose     *)
(* odd-indexed coefficients are all zero (constants and the all-zero       *)
(* polynomial included), is_hurwitz ends with an error once the degrees    *)
(* of the two parts are taken: nothing is returned, continued_fractions    *)
(* is not called and no division is made.                                  *)
C6_DegenerateSplitFails ==
    (/\ op = "is_hurwitz"
     /\ EvenAllZero(pol) \/ OddAllZero(pol)
     /\ pc \notin {"ih_split", "ih_degrees"})
    => (/\ pc = "raised" /\ err = "IndexError"
        /\ num0 = <<>> /\ quo = <<>> /\ rem = <<>> /\ cf_ret = <<>>)

\* a pol of degree 2 without an odd-indexed coefficient
C6_Witness ==
    /\ op = "is_hurwitz" /\ pc = "raised"
    /\ Len(pol) = 3 /\ pol[1] # 0 /\ pol[2] = 0 /\ pol[3] # 0

(* C7: when continued_fractions returns it has made exactly                *)
(* degree(num_initial) passes of the loop and the sequence returned has    *)
(* that length; each pass writes the alpha of its own index and leaves the *)
(* others, and no pass goes beyond degree(num_initial).                    *)
C7_ExactlyDegreeSteps ==
    [][/\ (pc = "cf_loop" /\ pc' \in {"returned", "ih_return"})
          => (/\ i = Deg(num0)
              /\ Len(cf_ret') = Deg(num0)
              /\ cf_ret' = alphas)
       /\ (pc = "cf_loop" /\ i' # i)
          => (/\ i' = i + 1 /\ i' <= Deg(num0)
              /\ Len(alphas') = Deg(num0)
              /\ \A k \in 1..Len(alphas) : k # i' => alphas'[k] = alphas[k])]_vars

\* a direct call returned two alphas after two passes
C7_Witness ==
    /\ op = "continued_fractions" /\ pc = "returned"
    /\ Deg(num0) = 2 /\ i = 2 /\ Len(cf_ret) = 2
    /\ cf_ret[1] # Zero /\ cf_ret[2] # Zero

(* C8: in every pass of the loop that records an alpha, quo and rem are    *)
(* the quotient and the remainder of num by den (num = quo*den + rem with  *)
(* rem zero or of lower degree than den), the alpha recorded is the        *)
(* coefficient of the linear term of quo, and the next pass divides the    *)
(* previous den by the previous rem.                                       *)
C8_AlphaIsLinearQuotientCoefficient ==
    [][(pc = "cf_loop" /\ i' = i + 1)
       => (/\ alphas'[i'] = quo'[2]
           /\ IsDivision(num, den, quo', rem')
           /\ IsZeroPoly(rem') \/ Deg(rem') < Deg(den)
           /\ num' = den /\ den' = rem')]_vars

\* the second pass of a direct call left a remainder of degree 1
C8_Witness ==
    /\ op = "continued_fractions" /\ pc = "cf_loop" /\ i = 2
    /\ Len(quo) = 2 /\ ~IsZeroPoly(rem) /\ Deg(rem) = 1
    /\ alphas[2] = quo[2] /\ den = rem

EvenPart(c) == [k \in 1..Len(c) |-> IF (k - 1) % 2 = 0 THEN ToFloat(c[k]) ELSE Zero]
OddPart(c) == [k \in 1..Len(c) |-> IF (k - 1) % 2 = 1 THEN ToFloat(c[k]) ELSE Zero]

(* C9: with n the degree of the odd part and m the degree of the even part *)
(* of pol, is_hurwitz hands (even_pol, odd_pol) to continued_fractions     *)
(* when m > n and (odd_pol, even_pol) when m <= n.                         *)
C9_NumeratorChoice ==
    (op = "is_hurwitz" /\ Len(num0) > 0)
    => IF Deg(EvenPart(pol)) > Deg(OddPart(pol))
       THEN num0 = EvenPart(pol) /\ den0 = OddPart(pol)
       ELSE num0 = OddPart(pol) /\ den0 = EvenPart(pol)

\* a pol of even degree: the even part became the numerator
C9_Witness ==
    /\ op = "is_hurwitz" /\ pc = "cf_degrees"
    /\ m > n /\ m = 2 /\ n = 1
    /\ num0 = even_pol /\ den0 = odd_pol /\ num0 # den0

(* C10: for pol1 = [6, 11, 6, 1] and pol3 = [1, 2, 2, 1] is_hurwitz raises *)
(* no error and returns True, with a sequence of 3 alphas that are all     *)
(* strictly positive.                                                      *)
C10_KnownHurwitz ==
    (op = "is_hurwitz" /\ pol \in {pol1, pol3})
    => /\ pc # "raised"
       /\ pc = "returned"
          => (/\ ret.bool
              /\ Len(cf_ret) = 3
              /\ \A k \in 1..3 : cf_ret[k][1] > 0
              /\ get_cof => ret.cof = cf_ret)

\* is_hurwitz(pol1, get_cof=True) returned
C10_Witness ==
    /\ IhReturned /\ pol = pol1 /\ get_cof
    /\ ret.bool /\ Len(ret.cof) = 3

(* C11: for pol2 = [1, 1, 1, 2] is_hurwitz raises no error and returns     *)
(* False, and the alpha sequence it computed has an entry that is zero or  *)
(* negative.                                                               *)
C11_KnownNonHurwitz ==
    (op = "is_hurwitz" /\ pol = pol2)
    => /\ pc # "raised"
       /\ pc = "returned"
          => (/\ ~ret.bool
              /\ \E k \in 1..Len(cf_ret) : cf_ret[k][1] <= 0
              /\ get_cof => ret.cof = cf_ret)

\* is_hurwitz(pol2) returned its plain boolean
C11_Witness ==
    /\ IhReturned /\ pol = pol2 /\ ~get_cof
    /\ ~ret.bool /\ ~ret.tuple /\ Len(cf_ret) = 3

----------------------------------------------------------------------------
(* The chain hs -> hw -> hwmag, hwphase *)

\* the denominator the call hs(s) divided by
Denominator == HornerAscending(b, hs_n + 1, s)
NonFinite(kind) == kind \in {"inf", "-inf", "nan"}

(* C12: a call hs(s) raises an error only for a b shorter than n + 1; at   *)
(* an s where the denominator sum is zero the call returns, and both       *)
(* components of the value returned are infinite or not-a-number,          *)
(* whatever a is.                                                          *)
C12_PoleGivesNonFinite ==
    op = "coefficients2hs"
    => /\ pc = "raised" => (err = "IndexError" /\ hs_n + 1 > Len(b))
       /\ (HsCalled /\ Denominator = CZero)
          => (/\ err = "none"
              /\ NonFinite(hs_val.re_kind) /\ NonFinite(hs_val.im_kind))

\* hs was called with a nonzero a at a nonzero root of a denominator of
\* order 1
C12_Witness ==
    /\ HsCalled /\ hs_n = 1 /\ Len(b) = 2 /\ a # Zero
    /\ s # CZero /\ b[2] # Zero /\ Denominator = CZero
    /\ hs_val.re_kind \in {"inf", "-inf"}

\* the absolute value |x| of a rational x as a magnitude
AbsOf(x) == [kind |-> "finite", sign |-> IF x = Zero THEN 0 ELSE 1, sq |-> fmul(x, x)]

(* C13: with the denominator [1] and the order 0 no call raises, hs(s) is  *)
(* the real number a at every s, and hwmag(w), of hwmag =                  *)
(* hw2hwmag(hs2hw(hs)), is |a| at every w.                                 *)
C13_ConstantFilter ==
    (op = "coefficients2hs" /\ b = <<ToFloat(1)>> /\ hs_n = 0)
    => /\ pc # "raised"
       /\ hs_val # NoValue
          => (IsFinite(hs_val) /\ hs_val.re = a /\ hs_val.im = Zero)
       /\ hwmag_val # NoMag => hwmag_val = AbsOf(a)

\* hwmag was called at a nonzero w for a negative a
C13_Witness ==
    /\ op = "coefficients2hs" /\ pc = "hs_called"
    /\ b = <<ToFloat(1)>> /\ hs_n = 0 /\ a[1] < 0
    /\ w # Zero /\ hwmag_val # NoMag /\ hwmag_val.sign = 1

HwCalled == op = "coefficients2hs" /\ pc \in {"hs_called", "hs_ready"} /\ hw_val # NoValue
HwmagCalled == HwCalled /\ hwmag_val # NoMag

\* hw_val is the value of hs at s = 0 + jw
HwIsHsOnImaginaryAxis ==
    /\ s = <<Zero, w>> /\ hw_val = hs_val
    /\ IsQuotient(hw_val, a, HornerAscending(b, hs_n + 1, <<Zero, w>>))

\* mag >= 0 and mag^2 = Re(z)^2 + Im(z)^2; between numbers that are not all
\* finite this holds only for mag = inf and a z without a not-a-number part
IsModulus(mag, z) ==
    IF IsFinite(z)
    THEN /\ mag.kind = "finite" /\ mag.sign >= 0
         /\ mag.sq = fadd(fmul(z.re, z.re), fmul(z.im, z.im))
         /\ mag.sign = 0 <=> mag.sq = Zero
    ELSE mag.kind = "inf" /\ z.re_kind # "nan" /\ z.im_kind # "nan"

(* C14 as stated: at every w, hw(w) is hs(s) at s = 0 + jw, and hwmag(w)   *)
(* is the modulus of hw(w): hwmag(w) >= 0 and hwmag(w)^2 = Re(hw(w))^2 +   *)
(* Im(hw(w))^2.                                                            *)
C14_ModulusAtEveryFrequency ==
    /\ HwCalled => HwIsHsOnImaginaryAxis
    /\ HwmagCalled => IsModulus(hwmag_val, hw_val)

(* C14 amended: at every w, hw(w) is hs(s) at s = 0 + jw; at every w where *)
(* hw(w) is finite, hwmag(w) >= 0 and hwmag(w)^2 = Re(hw(w))^2 +           *)
(* Im(hw(w))^2; at a w where the denominator is zero hwmag(w) is inf for   *)
(* a nonzero a and not-a-number for a = 0.                                 *)
C14_ModulusWhereFinite ==
    /\ HwCalled => HwIsHsOnImaginaryAxis
    /\ (HwmagCalled /\ IsFinite(hw_val)) => IsModulus(hwmag_val, hw_val)
    /\ (HwmagCalled /\ ~IsFinite(hw_val))
       => hwmag_val.kind = (IF a = Zero THEN "nan" ELSE "inf")

\* hwmag was called at a nonzero w where hw(w) has a nonzero real and a
\* nonzero imaginary part
C14_Witness ==
    /\ HwmagCalled /\ IsFinite(hw_val) /\ w # Zero
    /\ hw_val.re # Zero /\ hw_val.im # Zero /\ hs_n = 1

Less(x, y) == x[1] * y[2] < y[1] * x[2]
Sgn(x) == IF x[1] > 0 THEN 1 ELSE IF x[1] < 0 THEN -1 ELSE 0
AbsLess(x, y) == Less(x, y) /\ Less(fsub(Zero, y), x)

\* the signs of cos and sin of an angle in degrees within [-180, 180], from
\* twice its midpoint
CosSign(ph) ==
    LET mid2 == fadd(ph.lo, ph.hi)
    IN  IF AbsLess(mid2, ToFloat(180)) THEN 1
        ELSE IF mid2 = ToFloat(180) \/ mid2 = ToFloat(-180) THEN 0 ELSE -1
SinSign(ph) ==
    LET mid2 == fadd(ph.lo, ph.hi)
    IN  IF Less(Zero, mid2) /\ Less(mid2, ToFloat(360)) THEN 1
        ELSE IF Less(mid2, Zero) /\ Less(ToFloat(-360), mid2) THEN -1 ELSE 0

\* the tangent recorded for the angle is the tangent of an angle in its
\* range: 0 at 0 and +-180, 1 at 45 and -135, -1 at -45 and 135, below 1 in
\* absolute value next to the real axis and above 1 next to the imaginary
\* axis
TanInRange(ph) ==
    LET d(k) == ToFloat(k)
    IN  IF ph.lo = ph.hi
        THEN /\ ph.lo \in {d(-180), d(-135), d(-90), d(-45), d(0), d(45), d(90), d(135), d(180)}
             /\ ph.lo \in {d(-180), d(0), d(180)} => ph.tan = Zero
             /\ ph.lo \in {d(45), d(-135)} => ph.tan = ToFloat(1)
             /\ ph.lo \in {d(-45), d(135)} => ph.tan = ToFloat(-1)
        ELSE /\ fsub(ph.hi, ph.lo) = d(45)
             /\ \E k \in -4..3 : ph.lo = d(45 * k)
             /\ ph.tan # Zero
             /\ (ph.lo \in {d(-180), d(0)} \/ ph.hi \in {d(0), d(180)})
                   => AbsLess(ph.tan, ToFloat(1))
             /\ (ph.lo \in {d(-90), d(90)} \/ ph.hi \in {d(-90), d(90)})
                   => ~AbsLess(ph.tan, ToFloat(1)) /\ ph.tan \notin {d(1), d(-1)}

\* z = |z| * exp(i * ph * pi / 180): z points in the direction of the angle
\* ph, given in degrees
PolarForm(z, ph) ==
    /\ ph.kind = "finite" /\ TanInRange(ph)
    /\ Sgn(z.re) = CosSign(ph) /\ Sgn(z.im) = SinSign(ph)
    /\ z.re # Zero => fmul(ph.tan, z.re) = z.im

HwphaseCalled == HwCalled /\ hwphase_val # NoPhase
FiniteNonzero(z) == IsFinite(z) /\ (z.re # Zero \/ z.im # Zero)

(* C15 as stated: at every w where hw(w) is finite and nonzero, hwphase(w) *)
(* is the argument of hw(w) in degrees, it is above -180 and at most 180,  *)
(* and hw(w) = |hw(w)| * exp(i * hwphase(w) * pi / 180).                   *)
C15_PhaseAboveMinus180 ==
    (HwphaseCalled /\ FiniteNonzero(hw_val))
    => /\ PolarForm(hw_val, hwphase_val)
       /\ \/ Less(ToFloat(-180), hwphase_val.lo)
          \/ hwphase_val.lo = ToFloat(-180) /\ Less(hwphase_val.lo, hwphase_val.hi)
       /\ ~Less(ToFloat(180), hwphase_val.hi)

(* C15 amended: at every w where hw(w) is finite and nonzero, hwphase(w)   *)
(* is the argument of hw(w) in degrees, it is at least -180 and at most    *)
(* 180, and hw(w) = |hw(w)| * exp(i * hwphase(w) * pi / 180); it is -180   *)
(* exactly where hw(w) is a negative real number whose imaginary part is   *)
(* the negative zero, which is where a > 0 and the denominator is a        *)
(* negative real number.                                                   *)
C15_PhaseFromMinus180 ==
    (HwphaseCalled /\ FiniteNonzero(hw_val))
    => /\ PolarForm(hw_val, hwphase_val)
       /\ ~Less(hwphase_val.lo, ToFloat(-180))
       /\ ~Less(ToFloat(180), hwphase_val.hi)
       /\ (hwphase_val.lo = ToFloat(-180) /\ hwphase_val.hi = ToFloat(-180))
          <=> (/\ a[1] > 0
               /\ HornerAscending(b, hs_n + 1, s)[2] = Zero
               /\ HornerAscending(b, hs_n + 1, s)[1][1] < 0)

\* hwphase was called where hw(w) is off both axes, and returned an angle
\* strictly between two multiples of 45 degrees
C15_Witness ==
    /\ HwphaseCalled /\ FiniteNonzero(hw_val)
    /\ hw_val.re # Zero /\ hw_val.im # Zero
    /\ hwphase_val.lo # hwphase_val.hi

----------------------------------------------------------------------------
(* Calls made again *)

\* a step in which one of hs, hw, hwmag, hwphase is called and returns
StageCallReturns == pc = "hs_ready" /\ pc' = "hs_called"

(* C16: a call of hs, hw, hwmag or hwphase leaves a, b and n as they were, *)
(* and a call with the function and the argument of an earlier call, with  *)
(* calls of these functions but no assignment by the caller in between,    *)
(* returns what the earlier call returned.                                 *)
C16_StagesArePure ==
    [][StageCallReturns
       => /\ a' = a /\ b' = b /\ hs_n' = hs_n
          /\ (hs_val # NoValue /\ s' = s) => hs_val' = hs_val
          /\ (hw_val # NoValue /\ hw_val' # NoValue /\ w' = w) => hw_val' = hw_val
          /\ (hwmag_val # NoMag /\ hwmag_val' # NoMag /\ w' = w)
                => hwmag_val' = hwmag_val
          /\ (hwphase_val # NoPhase /\ hwphase_val' # NoPhase /\ w' = w)
                => hwphase_val' = hwphase_val]_vars

\* hwphase has been called twice in a row at the same nonzero w, where its
\* value is finite
C16_Witness ==
    /\ op = "coefficients2hs" /\ pc = "hs_called"
    /\ fn = "hwphase" /\ again /\ w # Zero
    /\ hwphase_val.kind = "finite" /\ b = b0

(* C18: whatever the caller assigned to b after coefficients2hs(a, b, n)   *)
(* returned, hs(s) is a divided by the sum of b0[k] * s^k, b0 being the    *)
(* contents b had at the construction.                                     *)
C18_ConstructionTimeCoefficients ==
    (HsCalled /\ Len(b0) = hs_n + 1)
    => IsQuotient(hs_val, a, HornerAscending(b0, hs_n + 1, s))

----------------------------------------------------------------------------
(* The degrees along the expansion *)

\* continued_fractions runs or ran on a pair of nonzero polynomials
CfOnNonzeroPair ==
    /\ num0 # <<>> /\ den0 # <<>>
    /\ ~IsZeroPoly(num0) /\ ~IsZeroPoly(den0)

(* C17: for num and den with degree(num) >= degree(den), equal degrees of  *)
(* 1 and more included, continued_fractions either returns degree(num)     *)
(* alphas or ends in the ZeroDivisionError of a division by the zero       *)
(* polynomial, and in no other error.                                      *)
C17_AcceptsEqualDegrees ==
    (CfOnNonzeroPair /\ Deg(num0) >= Deg(den0))
    => /\ CfReturned => Len(cf_ret) = Deg(num0)
       /\ pc = "raised" => err = "ZeroDivisionError"
       /\ err \in {"none", "ZeroDivisionError"}

\* the loop is between two passes, with passes still to make, and the
\* degrees are not degree(num0) - i for num and one less for den
OffSchedule ==
    /\ CfRunning /\ pc = "cf_loop" /\ i < Deg(num0)
    /\ ~(/\ ~IsZeroPoly(num) /\ Deg(num) = Deg(num0) - i
         /\ ~IsZeroPoly(den) /\ Deg(den) = Deg(num0) - i - 1)

\* a pass of the loop that ends without an exception
PassDone == CfRunning /\ pc = "cf_loop" /\ i' = i + 1

(* C19: a call of continued_fractions in which, before some pass i + 1,    *)
(* the numerator has not the degree N - i or the denominator not the       *)
(* degree N - i - 1 (N = degree(num0)) never returns; a pass from degrees  *)
(* N - i and N - i - 1 has a quotient of exactly two coefficients, the     *)
(* second nonzero; and when a call with N >= 1 returns, the remainder of   *)
(* the last pass is the zero polynomial.                                   *)
C19_DegreesDropByOne ==
    /\ [](OffSchedule => [](~CfReturned))
    /\ [][(PassDone /\ ~OffSchedule) => (Len(quo') = 2 /\ quo'[2] # Zero)]_vars
    /\ []((CfReturned /\ Deg(num0) >= 1)
          => (/\ Len(quo) = 2 /\ IsZeroPoly(rem) /\ IsZeroPoly(den)
              /\ ~IsZeroPoly(num) /\ Deg(num) = 0))

\* the call of line 98, on a num of degree 4 and a den of degree 3,
\* returned after four passes
C19_Witness ==
    /\ op = "continued_fractions" /\ pc = "returned"
    /\ num0 = asarray(demo_num) /\ den0 = asarray(demo_den)
    /\ Deg(num0) = 4 /\ Deg(den0) = 3 /\ i = 4
    /\ Len(cf_ret) = 4 /\ IsZeroPoly(rem)

\* is_hurwitz has handed a pair to continued_fractions (line 77)
IhCalledCf == op = "is_hurwitz" /\ num0 # <<>>

(* C20: the pair is_hurwitz hands to continued_fractions has nonzero num   *)
(* and den with degree(num) > degree(den) and degree(num) >= 1; the        *)
(* degrees of the even and the odd part differ; the comparison den_deg >   *)
(* num_deg of line 29 is false in such a call; and the alphas is_hurwitz   *)
(* tests are not an empty sequence.                                        *)
C20_StrictDegreeOrderFromIsHurwitz ==
    IhCalledCf
    => /\ m # n
       /\ ~IsZeroPoly(num0) /\ ~IsZeroPoly(den0)
       /\ Deg(num0) > Deg(den0) /\ Deg(num0) >= 1
       /\ {Deg(num0), Deg(den0)} = {m, n}
       /\ pc \in {"cf_loop", "ih_return", "returned"}
             => (num_deg = Deg(num0) /\ den_deg = Deg(den0) /\ ~(den_deg > num_deg))
       /\ pc \in {"ih_return", "returned"} => Len(cf_ret) >= 1

\* is_hurwitz returned for a pol whose even part has the greater degree
C20_Witness ==
    /\ IhReturned /\ m > n /\ n >= 1
    /\ num0 = even_pol /\ den0 = odd_pol /\ Len(cf_ret) = m

----------------------------------------------------------------------------
(* What the calls leave to the caller *)

(* C21: no step of continued_fractions or is_hurwitz, up to the return and *)
(* up to every error exit, changes the arrays the caller passed: num and   *)
(* den of continued_fractions (num0, den0, which for is_hurwitz are the    *)
(* two parts it hands over at line 77) and pol of is_hurwitz; only the     *)
(* local names num and den are rebound.                                    *)
C21_ArgumentsUnchanged ==
    [][/\ op = "continued_fractions" => (num0' = num0 /\ den0' = den0)
       /\ op = "is_hurwitz"
          => (/\ pol' = pol
              /\ num0 # <<>> => (num0' = num0 /\ den0' = den0))]_vars

\* a direct call returned after its loop had bound num and den to other
\* polynomials than the ones passed
C21_Witness ==
    /\ op = "continued_fractions" /\ pc = "returned" /\ i >= 2
    /\ num # num0 /\ den # den0 /\ ~IsZeroPoly(num0) /\ ~IsZeroPoly(den0)

\* is_hurwitz has built even_pol and odd_pol (lines 62-68)
IhSplitDone == op = "is_hurwitz" /\ pc # "ih_split"

(* C22: once is_hurwitz has split a pol of length p + 1, even_pol and      *)
(* odd_pol have length p + 1; even_pol[k] is pol[k] at the even k and 0 at *)
(* the odd k, odd_pol[k] is pol[k] at the odd k and 0 at the even k; the   *)
(* two add up to pol coefficient by coefficient and no index is nonzero in *)
(* both.                                                                   *)
C22_EvenOddSplit ==
    IhSplitDone
    => /\ Len(even_pol) = Len(pol) /\ Len(odd_pol) = Len(pol)
       /\ \A k \in 1..Len(pol) :
             /\ (k - 1) % 2 = 0 => (even_pol[k] = ToFloat(pol[k]) /\ odd_pol[k] = Zero)
             /\ (k - 1) % 2 = 1 => (odd_pol[k] = ToFloat(pol[k]) /\ even_pol[k] = Zero)
             /\ fadd(even_pol[k], odd_pol[k]) = ToFloat(pol[k])
             /\ ~(even_pol[k] # Zero /\ odd_pol[k] # Zero)

\* a pol of length 4 with four nonzero coefficients has been split
C22_Witness ==
    /\ IhSplitDone /\ Len(pol) = 4
    /\ \A k \in 1..4 : pol[k] # 0
    /\ even_pol[1] # Zero /\ even_pol[3] # Zero
    /\ odd_pol[2] # Zero /\ odd_pol[4] # Zero

----------------------------------------------------------------------------
\* the helper h has been called and has its filter
HasFilter(h) == filter_func[h] # NoFilter

\* the filter the helper h builds from the n and the eps of a call
FilterOfCall(h, nn, ee) ==
    [stage  |-> IF h = "cheby_hw_phase" THEN "hwphase" ELSE "hwmag",
     family |-> IF h = "butter_hw_mag" THEN "butter" ELSE "cheby1",
     n      |-> nn,
     eps    |-> IF h = "butter_hw_mag" THEN 0 ELSE ee]

\* the step is a call of the helper h
CallOf(h) == op = "main" /\ pc = "demo_ready" /\ helper' = h

\* C23: butter_hw_mag, cheby_hw_mag and cheby_hw_phase build their filter at
\* their first call only, from the n and the eps of that call, and keep it in
\* the attribute filter_func: every later call of the helper returns that
\* filter evaluated at w, whatever n and eps it is given, and no step
\* replaces or removes an attribute once it is set.
C23_FilterBuiltOnce ==
    [][/\ \A h \in Helpers : HasFilter(h) => filter_func'[h] = filter_func[h]
       /\ \A h \in {"butter_hw_mag", "cheby_hw_mag", "cheby_hw_phase"} :
            CallOf(h)
            => /\ ~HasFilter(h)
                  => filter_func'[h] = FilterOfCall(h, demo_n', demo_eps')
               /\ demo_ret' = [w |-> domain, filter |-> filter_func'[h]]]_vars

\* a later call of cheby_hw_mag with another n and another eps than its
\* first call has returned the filter of the first call
C23_Witness ==
    /\ op = "main" /\ helper = "cheby_hw_mag"
    /\ demo_ret.filter = filter_func["cheby_hw_mag"]
    /\ demo_ret.filter.stage = "hwmag" /\ demo_ret.filter.family = "cheby1"
    /\ demo_ret.filter.n # demo_n /\ demo_ret.filter.eps # demo_eps

====
